---- MODULE Spec2Model ----
(***************************************************************************)
(* Model of the Telegram -> Matrix conversation routers of                 *)
(* matrix-chat-support:                                                    *)
(*   scripts/telegram-space-integration.py  (TelegramSpaceIntegration)     *)
(*   scripts/telegram-department-router.py  (DepartmentRouter)             *)
(*   scripts/telegram-department-bot.py     (TelegramDepartmentBot)        *)
(*                                                                         *)
(* The Telethon based routers run every update in an asyncio task of its   *)
(* own: a handler runs until it awaits a remote call and another handler   *)
(* may run while the call is pending.  A task's pc names the call it is    *)
(* waiting for; one step of the model completes that call (the outcome is  *)
(* chosen here) and runs the handler's code up to its next await.          *)
(***************************************************************************)
EXTENDS Integers, Sequences, FiniteSets, TLC

\* ------------------------------------------------------------- bounds
MaxEvents == 2      \* updates delivered in one behaviour
MaxTasks == 2       \* handlers in flight at once
MaxFailures == 1    \* remote Matrix calls that fail in one behaviour
AllFailures == 6    \* failing calls in one behaviour of SpecFailing

\* ------------------------------------------------------ configuration
Users == {"u1", "u2"}
Texts == {"hi", "bye"}
None == 0           \* Python None where an id, an index or a room is expected

\* config['departments'] of telegram-router.yaml: the list the routers read.
departments ==
    << [id |-> "A", bot_user_id |-> "@bot",
        support_users |-> <<"@s1", "@s2", "@s3">>],
       [id |-> "B", bot_user_id |-> "@bot",
        support_users |-> <<"@bot", "@s1">>] >>

\* self.departments of TelegramDepartmentBot: a dict keyed by department id.
bot_departments == {"A", "B"}

\* Updates: /start commands (split into words), button presses (callback
\* data split into its 5-character prefix and the rest), plain texts.
Events ==
    {[kind |-> "start", arg |-> <<"/start">>],
     [kind |-> "start", arg |-> <<"/start", "A">>],
     [kind |-> "start", arg |-> <<"/start", "X">>],
     [kind |-> "callback", arg |-> <<"dept_", "A">>],
     [kind |-> "callback", arg |-> <<"dept_", "B">>],
     [kind |-> "callback", arg |-> <<"dept_", "X">>]}
    \cup {[kind |-> "text", arg |-> <<m>>] : m \in Texts}

\* What a remote Matrix call can do: answer 200, answer another status, or
\* raise (aiohttp.ClientError, a timeout).
Outcomes == {"ok", "http", "exc"}

VARIABLES
    impl,           \* which of the three scripts runs
    user_sessions,  \* self.user_sessions: dict user id -> session
    space_cache,    \* self.space_cache: dict 'telegram' -> space id
    tasks,          \* handlers in flight, in arrival order of their update
    rooms,          \* the homeserver: room id -> what was created there
    nEvents,        \* updates delivered so far
    nFail,          \* failed Matrix calls so far
    conv_seq,       \* uuid source of TelegramDepartmentBot
    last,           \* the step just taken: who, which call, which reply
    peer            \* the other router, fed the same updates (NoPeer: none)

vars == <<impl, user_sessions, space_cache, tasks, rooms, nEvents, nFail,
          conv_seq, last, peer>>

\* ------------------------------------------------------------ helpers
HasSession(u) == u \in DOMAIN user_sessions

\* user_sessions restricted to u: empty when u has no session.
SessionOf(sessions, u) == [v \in (DOMAIN sessions) \cap {u} |-> sessions[v]]

\* Mutant of SetSession: the sessions are not kept per user, the record is
\* stored for every user that has one.
SetSession_shared(u, s) ==
    [v \in (DOMAIN user_sessions) \cup {u} |-> s]

\* self.user_sessions[user_id] = s
SetSession(u, s) ==
    [v \in (DOMAIN user_sessions) \cup {u} |->
        IF v = u THEN s ELSE user_sessions[v]]

NoTask ==
    [user |-> "", kind |-> "none", arg |-> <<>>, pc |-> "done",
     department |-> None, root_space_id |-> None, telegram_space_id |-> None,
     room_id |-> None, idx |-> 0, message |-> "", result |-> None,
     sess0 |-> <<>>, solo |-> TRUE]

NoStep ==
    [task |-> NoTask, from |-> "init", op |-> "none", room |-> None,
     outcome |-> "none", reply |-> "none"]

\* No second program runs.
NoPeer == [impl |-> "none"]

\* The step record: t is the task after the step.
Step(t, from, op, room, outcome, reply) ==
    [task |-> t, from |-> from, op |-> op, room |-> room,
     outcome |-> outcome, reply |-> reply]

Remove(s, i) == [k \in 1..(Len(s) - 1) |-> IF k < i THEN s[k] ELSE s[k + 1]]

\* The task list after task i became t: a finished task leaves the list.
Continue(i, t) ==
    IF t.pc = "done" THEN Remove(tasks, i) ELSE [tasks EXCEPT ![i] = t]

\* A failing call is allowed while the failure budget lasts.
MayBe(o) == o = "ok" \/ nFail < MaxFailures
Failures(o) == IF o = "ok" THEN nFail ELSE nFail + 1

\* The homeserver creates a room: its id is the next free one.
NewRoom(kind, owner, dept) ==
    [kind |-> kind, owner |-> owner, dept |-> dept, parent |-> None,
     tried |-> {}, failed |-> {}, msgs |-> <<>>]

\* ------------------------------------------------------ the registry
\* Mutant of get_department_by_id: an id that is not configured falls back
\* to the first department.
get_department_by_id_default(dept_id) ==
    LET hits == {k \in DOMAIN departments : departments[k].id = dept_id}
    IN  IF hits = {} THEN 1
        ELSE CHOOSE k \in hits : \A j \in hits : k <= j

\* Mutant of get_department_by_id: the comparison is inverted, the first
\* department with another id is returned.
get_department_by_id_mismatch(dept_id) ==
    LET hits == {k \in DOMAIN departments : departments[k].id # dept_id}
    IN  IF hits = {} THEN None
        ELSE CHOOSE k \in hits : \A j \in hits : k <= j

\* get_department_by_id: the first configured department with that id, as
\* its index in config['departments']; None when there is none.
get_department_by_id(dept_id) ==
    LET hits == {k \in DOMAIN departments : departments[k].id = dept_id}
    IN  IF hits = {} THEN None
        ELSE CHOOSE k \in hits : \A j \in hits : k <= j

\* ------------------------------------------------------------ arrival
\* Telethon hands an update to the handlers in a new task (setup_handlers);
\* python-telegram-bot takes the next update when the last one is handled.
\* sess0 and solo are bookkeeping: the user's session when the update came,
\* and whether no other handler of that user has been in flight since.
Deliver(u, ev) ==
    /\ Len(tasks) < MaxTasks
    /\ impl = "bot" => tasks = <<>>
    /\ nEvents' = nEvents + 1
    /\ LET alone == \A k \in DOMAIN tasks : tasks[k].user # u
           t == [NoTask EXCEPT !.user = u, !.kind = ev.kind, !.arg = ev.arg,
                               !.pc = "recv",
                               !.sess0 = SessionOf(user_sessions, u),
                               !.solo = alone]
           old == [k \in DOMAIN tasks |->
                      IF tasks[k].user = u
                      THEN [tasks[k] EXCEPT !.solo = FALSE] ELSE tasks[k]]
       IN  /\ tasks' = Append(old, t)
           /\ last' = Step(t, "arrive", "none", None, "none", "none")
    /\ UNCHANGED <<impl, peer, user_sessions, space_cache, rooms, nFail, conv_seq>>

\* Any user sends any update.
Arrive(u, ev) ==
    /\ nEvents < MaxEvents
    /\ Deliver(u, ev)

\* One user sends /start, presses the button of department A, then writes
\* "hi" and "bye".
Script ==
    << [kind |-> "start", arg |-> <<"/start">>],
       [kind |-> "callback", arg |-> <<"dept_", "A">>],
       [kind |-> "text", arg |-> <<"hi">>],
       [kind |-> "text", arg |-> <<"bye">>] >>

ArriveInOrder ==
    /\ nEvents < Len(Script)
    /\ Deliver("u1", Script[nEvents + 1])

\* ------------------------------------------------------------ sessions
\* {"state": "selecting_department"}
SelectingSession == [state |-> "selecting_department"]

\* {"state": "chatting", "department": department, "matrix_room_id": room_id}
ChattingSession(department, room_id) ==
    [state |-> "chatting", department |-> department,
     matrix_room_id |-> room_id]

\* session["state"] == "chatting" of a user in user_sessions
IsChatting(u) ==
    /\ impl # "bot"
    /\ HasSession(u)
    /\ user_sessions[u].state = "chatting"

\* -------------------------------------------- parsing of the updates
\* start_handler: parts = command_text.split(' ', 1);
\* department_id = parts[1] if len(parts) > 1 else None ("" here: falsy).
command_department_id(parts) == IF Len(parts) > 1 THEN parts[2] ELSE ""

\* data.startswith('dept_') and data[5:]
starts_with_dept(data) == Len(data) > 0 /\ data[1] = "dept_"
callback_department_id(data) == IF Len(data) > 1 THEN data[2] ELSE ""

\* ------------------------------------------------ room provisioning
\* Mutant of start_provisioning: the space cache is not consulted.
start_provisioning_uncached(t, department) ==
    IF impl = "space"
    THEN [t EXCEPT !.department = department, !.pc = "post_root"]
    ELSE [t EXCEPT !.department = department, !.pc = "post_room"]

\* create_telegram_room_in_space / create_matrix_room up to the first await:
\* ensure_telegram_space_hierarchy returns the cached space id, or starts
\* with the root space; DepartmentRouter creates the room at once.
start_provisioning(t, department) ==
    IF impl = "space"
    THEN IF "telegram" \in DOMAIN space_cache
         THEN [t EXCEPT !.department = department,
                        !.telegram_space_id = space_cache["telegram"],
                        !.pc = "post_room"]
         ELSE [t EXCEPT !.department = department, !.pc = "post_root"]
    ELSE [t EXCEPT !.department = department, !.pc = "post_room"]

\* invite_support_users_to_room: the next entry of support_users after
\* index k that is not the bot user; None when the loop is over.
next_invitee(department, k) ==
    LET d == departments[department]
        rest == {j \in DOMAIN d.support_users :
                    j > k /\ d.support_users[j] # d.bot_user_id}
    IN  IF rest = {} THEN None
        ELSE CHOOSE j \in rest : \A m \in rest : j <= m

\* The loop of invite_support_users_to_room after the invite at index k
\* ended with outcome o: a raised exception leaves the loop (the try is
\* around the for), a status other than 200 is logged and the loop goes on.
invite_loop_after(department, k, o) ==
    IF o = "exc" THEN None ELSE next_invitee(department, k)

\* Mutant of provisioned: the session of a chatting user is updated in
\* place with the new room only, the department stays.
provisioned_room_only(i, t, from, op, o) ==
    LET t2 == [t EXCEPT !.pc = "respond_confirm"]
    IN  /\ user_sessions' =
               SetSession(t.user,
                          IF IsChatting(t.user)
                          THEN [user_sessions[t.user] EXCEPT
                                   !.matrix_room_id = t.room_id]
                          ELSE ChattingSession(t.department, t.room_id))
        /\ tasks' = Continue(i, t2)
        /\ last' = Step(t2, from, op, t.room_id, o, "confirmation")

\* select_department, if room_id: the session is stored, the confirmation
\* is sent, and the handler waits for Telegram.
provisioned(i, t, from, op, o) ==
    LET t2 == [t EXCEPT !.pc = "respond_confirm"]
    IN  /\ user_sessions' =
               SetSession(t.user, ChattingSession(t.department, t.room_id))
        /\ tasks' = Continue(i, t2)
        /\ last' = Step(t2, from, op, t.room_id, o, "confirmation")

\* Mutant of not_provisioned: the failed selection forgets the user.
not_provisioned_forgets_user(i, t, from, op, o) ==
    LET t2 == [t EXCEPT !.pc = "done"]
    IN  /\ tasks' = Continue(i, t2)
        /\ last' = Step(t2, from, op, None, o, "error")
        /\ user_sessions' =
               [v \in (DOMAIN user_sessions) \ {t.user} |-> user_sessions[v]]

\* Mutant of not_provisioned: the session is stored before the room id is
\* looked at.
not_provisioned_stores_session(i, t, from, op, o) ==
    LET t2 == [t EXCEPT !.pc = "done"]
    IN  /\ tasks' = Continue(i, t2)
        /\ last' = Step(t2, from, op, None, o, "error")
        /\ user_sessions' =
               SetSession(t.user, ChattingSession(t.department, t.room_id))

\* Mutant of not_provisioned: a failed provisioning sends the user back to
\* department selection.
not_provisioned_reset(i, t, from, op, o) ==
    LET t2 == [t EXCEPT !.pc = "done"]
    IN  /\ tasks' = Continue(i, t2)
        /\ last' = Step(t2, from, op, None, o, "error")
        /\ user_sessions' = SetSession(t.user, SelectingSession)

\* select_department, else: provisioning returned None; the user gets the
\* "couldn't connect" reply and the handler ends.
not_provisioned(i, t, from, op, o) ==
    LET t2 == [t EXCEPT !.pc = "done"]
    IN  /\ tasks' = Continue(i, t2)
        /\ last' = Step(t2, from, op, None, o, "error")
        /\ UNCHANGED user_sessions

\* ------------------------------------------- Telethon update handlers
\* handle_start_command (both Telethon routers), from /start or from
\* handle_message: a known department id selects at once, everything else
\* shows the keyboard.
handle_start_command(i) ==
    LET t == tasks[i]
        department_id == command_department_id(t.arg)
        department == get_department_by_id(department_id)
    IN  /\ impl # "bot"
        /\ t.pc = "recv"
        /\ t.kind = "start"
        /\ LET t2 == IF department_id # "" /\ department # None
                     THEN start_provisioning(t, department)
                     ELSE [t EXCEPT !.pc = "respond_welcome"]
           IN  /\ tasks' = Continue(i, t2)
               /\ last' = Step(t2, "recv", "none", None, "none",
                               IF t2.pc = "respond_welcome"
                               THEN "welcome" ELSE "none")
        /\ UNCHANGED <<impl, peer, user_sessions, space_cache, rooms, nEvents,
                       nFail, conv_seq>>

\* Mutant of show_department_selection: the keyboard is shown but no session
\* is stored.
show_department_selection_no_session(i) ==
    LET t == tasks[i]
        t2 == [t EXCEPT !.pc = "done"]
    IN  /\ t.pc = "respond_welcome"
        /\ tasks' = Continue(i, t2)
        /\ last' = Step(t2, "respond_welcome", "none", None, "none", "none")
        /\ UNCHANGED <<impl, peer, user_sessions, space_cache, rooms, nEvents,
                       nFail, conv_seq>>

\* Mutant of show_department_selection: the state of an existing session is
\* set in place, so the record of a chatting user keeps department and room.
show_department_selection_in_place(i) ==
    LET t == tasks[i]
        t2 == [t EXCEPT !.pc = "done"]
    IN  /\ t.pc = "respond_welcome"
        /\ user_sessions' =
               SetSession(t.user,
                          IF HasSession(t.user)
                          THEN [user_sessions[t.user] EXCEPT
                                   !.state = "selecting_department"]
                          ELSE SelectingSession)
        /\ tasks' = Continue(i, t2)
        /\ last' = Step(t2, "respond_welcome", "none", None, "none", "none")
        /\ UNCHANGED <<impl, peer, space_cache, rooms, nEvents, nFail, conv_seq>>

\* Mutant of show_department_selection: the selecting session is stored for
\* a user without a session only.
show_department_selection_if_new(i) ==
    LET t == tasks[i]
        t2 == [t EXCEPT !.pc = "done"]
    IN  /\ t.pc = "respond_welcome"
        /\ user_sessions' = IF HasSession(t.user) THEN user_sessions
                            ELSE SetSession(t.user, SelectingSession)
        /\ tasks' = Continue(i, t2)
        /\ last' = Step(t2, "respond_welcome", "none", None, "none", "none")
        /\ UNCHANGED <<impl, peer, space_cache, rooms, nEvents, nFail, conv_seq>>

\* handle_start_command after await event.respond(welcome_message, ...):
\* self.user_sessions[user_id] = {"state": "selecting_department"}
show_department_selection(i) ==
    LET t == tasks[i]
        t2 == [t EXCEPT !.pc = "done"]
    IN  /\ t.pc = "respond_welcome"
        /\ user_sessions' = SetSession(t.user, SelectingSession)
        /\ tasks' = Continue(i, t2)
        /\ last' = Step(t2, "respond_welcome", "none", None, "none", "none")
        /\ UNCHANGED <<impl, peer, space_cache, rooms, nEvents, nFail, conv_seq>>

\* handle_callback_query: a known id is acknowledged ("Connecting you
\* to ...") and selected; an unknown one is answered "Department not found".
handle_callback_query(i) ==
    LET t == tasks[i]
        department == get_department_by_id(callback_department_id(t.arg))
    IN  /\ impl # "bot"
        /\ t.pc = "recv"
        /\ t.kind = "callback"
        /\ LET t2 == IF starts_with_dept(t.arg) /\ department # None
                     THEN [t EXCEPT !.department = department,
                                    !.pc = "edit_connecting"]
                     ELSE [t EXCEPT !.pc = "done"]
           IN  /\ tasks' = Continue(i, t2)
               /\ last' = Step(t2, "recv", "none", None, "none",
                               IF ~starts_with_dept(t.arg) THEN "none"
                               ELSE IF department # None THEN "connecting"
                               ELSE "not_found")
        /\ UNCHANGED <<impl, peer, user_sessions, space_cache, rooms, nEvents,
                       nFail, conv_seq>>

\* select_department entered from handle_callback_query, after the await
\* of event.edit: provisioning starts.
select_department(i) ==
    LET t == tasks[i]
        t2 == start_provisioning(t, t.department)
    IN  /\ t.pc = "edit_connecting"
        /\ tasks' = Continue(i, t2)
        /\ last' = Step(t2, "edit_connecting", "none", None, "none", "none")
        /\ UNCHANGED <<impl, peer, user_sessions, space_cache, rooms, nEvents,
                       nFail, conv_seq>>

\* Mutant of handle_message: a text outside a chat is dropped without the
\* department prompt.
handle_message_silent(i) ==
    LET t == tasks[i]
    IN  /\ impl # "bot"
        /\ t.pc = "recv"
        /\ t.kind = "text"
        /\ LET t2 == IF IsChatting(t.user)
                     THEN [t EXCEPT
                             !.department = user_sessions[t.user].department,
                             !.room_id = user_sessions[t.user].matrix_room_id,
                             !.message = t.arg[1],
                             !.pc = "post_message"]
                     ELSE [t EXCEPT !.pc = "done"]
           IN  /\ tasks' = Continue(i, t2)
               /\ last' = Step(t2, "recv", "none", None, "none", "none")
        /\ UNCHANGED <<impl, peer, user_sessions, space_cache, rooms, nEvents,
                       nFail, conv_seq>>

\* handle_message: a chatting session relays the text to its room with its
\* department's credentials; anything else starts department selection.
handle_message(i) ==
    LET t == tasks[i]
    IN  /\ impl # "bot"
        /\ t.pc = "recv"
        /\ t.kind = "text"
        /\ LET t2 == IF IsChatting(t.user)
                     THEN [t EXCEPT
                             !.department = user_sessions[t.user].department,
                             !.room_id = user_sessions[t.user].matrix_room_id,
                             !.message = t.arg[1],
                             !.pc = "post_message"]
                     ELSE [t EXCEPT !.pc = "respond_welcome"]
           IN  /\ tasks' = Continue(i, t2)
               /\ last' = Step(t2, "recv", "none", None, "none",
                               IF t2.pc = "respond_welcome"
                               THEN "welcome" ELSE "none")
        /\ UNCHANGED <<impl, peer, user_sessions, space_cache, rooms, nEvents,
                       nFail, conv_seq>>

\* ------------------------------------ TelegramSpaceIntegration: spaces
\* ensure_root_space: POST createRoom for the root space answers.  A status
\* other than 200 and a raised exception both raise to
\* create_telegram_room_in_space, which returns None.
ensure_root_space(i) ==
    LET t == tasks[i]
        id == Len(rooms) + 1
    IN  /\ impl = "space"
        /\ t.pc = "post_root"
        /\ \E o \in Outcomes :
            /\ MayBe(o)
            /\ nFail' = Failures(o)
            /\ IF o = "ok"
               THEN LET t2 == [t EXCEPT !.root_space_id = id,
                                        !.pc = "post_telegram"]
                    IN  /\ rooms' = Append(rooms, NewRoom("root", "", None))
                        /\ tasks' = Continue(i, t2)
                        /\ last' = Step(t2, "post_root", "createRoom", id, o,
                                        "none")
                        /\ UNCHANGED user_sessions
               ELSE /\ not_provisioned(i, t, "post_root", "createRoom", o)
                    /\ UNCHANGED rooms
        /\ UNCHANGED <<impl, peer, space_cache, nEvents, conv_seq>>

\* Mutant of ensure_telegram_space: a failed createRoom is only logged, as in
\* add_space_to_parent, and provisioning goes on without a space id.
ensure_telegram_space_swallowed(i) ==
    LET t == tasks[i]
        id == Len(rooms) + 1
    IN  /\ impl = "space"
        /\ t.pc = "post_telegram"
        /\ \E o \in Outcomes :
            /\ MayBe(o)
            /\ nFail' = Failures(o)
            /\ LET t2 == IF o = "ok"
                         THEN [t EXCEPT !.telegram_space_id = id,
                                        !.pc = "put_space_child"]
                         ELSE [t EXCEPT !.pc = "post_room"]
               IN  /\ rooms' = IF o = "ok"
                               THEN Append(rooms, NewRoom("channel", "", None))
                               ELSE rooms
                   /\ tasks' = Continue(i, t2)
                   /\ last' = Step(t2, "post_telegram", "createRoom",
                                   IF o = "ok" THEN id ELSE None, o, "none")
        /\ UNCHANGED <<impl, peer, user_sessions, space_cache, nEvents, conv_seq>>

\* ensure_telegram_space: POST createRoom for the Telegram space answers;
\* on 200 the space is next linked to the root space.
ensure_telegram_space(i) ==
    LET t == tasks[i]
        id == Len(rooms) + 1
    IN  /\ impl = "space"
        /\ t.pc = "post_telegram"
        /\ \E o \in Outcomes :
            /\ MayBe(o)
            /\ nFail' = Failures(o)
            /\ IF o = "ok"
               THEN LET t2 == [t EXCEPT !.telegram_space_id = id,
                                        !.pc = "put_space_child"]
                    IN  /\ rooms' = Append(rooms, NewRoom("channel", "", None))
                        /\ tasks' = Continue(i, t2)
                        /\ last' = Step(t2, "post_telegram", "createRoom", id,
                                        o, "none")
                        /\ UNCHANGED user_sessions
               ELSE /\ not_provisioned(i, t, "post_telegram", "createRoom", o)
                    /\ UNCHANGED rooms
        /\ UNCHANGED <<impl, peer, space_cache, nEvents, conv_seq>>

\* add_space_to_parent: PUT m.space.child on the root space answers; a
\* failure is logged only.  ensure_telegram_space then returns, the id is
\* cached (ensure_telegram_space_hierarchy) and the conversation room's
\* createRoom is sent.
add_space_to_parent(i) ==
    LET t == tasks[i]
        t2 == [t EXCEPT !.pc = "post_room"]
    IN  /\ impl = "space"
        /\ t.pc = "put_space_child"
        /\ \E o \in Outcomes :
            /\ MayBe(o)
            /\ nFail' = Failures(o)
            /\ rooms' = IF o = "ok"
                        THEN [rooms EXCEPT ![t.telegram_space_id].parent =
                                               t.root_space_id]
                        ELSE rooms
            /\ last' = Step(t2, "put_space_child", "link",
                            t.telegram_space_id, o, "none")
        /\ space_cache' = [k \in {"telegram"} |-> t.telegram_space_id]
        /\ tasks' = Continue(i, t2)
        /\ UNCHANGED <<impl, peer, user_sessions, nEvents, conv_seq>>

\* ------------------------- TelegramSpaceIntegration: conversation room
\* Mutant of create_telegram_room_in_space: the session is stored as soon
\* as the room exists, before the link and the invites.
create_telegram_room_in_space_early_session(i) ==
    LET t == tasks[i]
        id == Len(rooms) + 1
    IN  /\ impl = "space"
        /\ t.pc = "post_room"
        /\ \E o \in Outcomes :
            /\ MayBe(o)
            /\ nFail' = Failures(o)
            /\ IF o = "ok"
               THEN LET t2 == [t EXCEPT !.room_id = id,
                                        !.pc = "put_room_child"]
                    IN  /\ rooms' = Append(rooms,
                                       NewRoom("conv", t.user, t.department))
                        /\ tasks' = Continue(i, t2)
                        /\ last' = Step(t2, "post_room", "createRoom", id, o,
                                        "none")
                        /\ user_sessions' =
                               SetSession(t.user,
                                          ChattingSession(t.department, id))
               ELSE /\ not_provisioned(i, t, "post_room", "createRoom", o)
                    /\ UNCHANGED rooms
        /\ UNCHANGED <<impl, peer, space_cache, nEvents, conv_seq>>

\* create_telegram_room_in_space: POST createRoom for the conversation room
\* answers; on 200 the room is next added to the Telegram space, otherwise
\* None is returned.
create_telegram_room_in_space(i) ==
    LET t == tasks[i]
        id == Len(rooms) + 1
    IN  /\ impl = "space"
        /\ t.pc = "post_room"
        /\ \E o \in Outcomes :
            /\ MayBe(o)
            /\ nFail' = Failures(o)
            /\ IF o = "ok"
               THEN LET t2 == [t EXCEPT !.room_id = id,
                                        !.pc = "put_room_child"]
                    IN  /\ rooms' = Append(rooms,
                                       NewRoom("conv", t.user, t.department))
                        /\ tasks' = Continue(i, t2)
                        /\ last' = Step(t2, "post_room", "createRoom", id, o,
                                        "none")
                        /\ UNCHANGED user_sessions
               ELSE /\ not_provisioned(i, t, "post_room", "createRoom", o)
                    /\ UNCHANGED rooms
        /\ UNCHANGED <<impl, peer, space_cache, nEvents, conv_seq>>

\* Mutant of add_room_to_space: a room that cannot be linked to the space
\* is given up, provisioning returns None.
add_room_to_space_fatal(i) ==
    LET t == tasks[i]
        first == next_invitee(t.department, 0)
    IN  /\ impl = "space"
        /\ t.pc = "put_room_child"
        /\ \E o \in Outcomes :
            /\ MayBe(o)
            /\ nFail' = Failures(o)
            /\ rooms' = IF o = "ok"
                        THEN [rooms EXCEPT ![t.room_id].parent =
                                               t.telegram_space_id]
                        ELSE rooms
            /\ IF o # "ok"
               THEN not_provisioned(i, t, "put_room_child", "link", o)
               ELSE IF first = None
               THEN provisioned(i, t, "put_room_child", "link", o)
               ELSE LET t2 == [t EXCEPT !.idx = first, !.pc = "post_invite"]
                    IN  /\ tasks' = Continue(i, t2)
                        /\ last' = Step(t2, "put_room_child", "link",
                                        t.room_id, o, "none")
                        /\ UNCHANGED user_sessions
        /\ UNCHANGED <<impl, peer, space_cache, nEvents, conv_seq>>

\* add_room_to_space: PUT m.space.child on the Telegram space answers; a
\* failure is logged only.  The invite loop starts; without anyone to
\* invite the room id is returned to select_department.
add_room_to_space(i) ==
    LET t == tasks[i]
        first == next_invitee(t.department, 0)
    IN  /\ impl = "space"
        /\ t.pc = "put_room_child"
        /\ \E o \in Outcomes :
            /\ MayBe(o)
            /\ nFail' = Failures(o)
            /\ rooms' = IF o = "ok"
                        THEN [rooms EXCEPT ![t.room_id].parent =
                                               t.telegram_space_id]
                        ELSE rooms
            /\ IF first = None
               THEN provisioned(i, t, "put_room_child", "link", o)
               ELSE LET t2 == [t EXCEPT !.idx = first, !.pc = "post_invite"]
                    IN  /\ tasks' = Continue(i, t2)
                        /\ last' = Step(t2, "put_room_child", "link",
                                        t.room_id, o, "none")
                        /\ UNCHANGED user_sessions
        /\ UNCHANGED <<impl, peer, space_cache, nEvents, conv_seq>>

\* Mutant of invite_support_users_to_room: a failed invite fails the whole
\* provisioning.
invite_support_users_to_room_fatal(i) ==
    LET t == tasks[i]
        who == departments[t.department].support_users[t.idx]
    IN  /\ impl = "space"
        /\ t.pc = "post_invite"
        /\ \E o \in Outcomes :
            /\ MayBe(o)
            /\ nFail' = Failures(o)
            /\ rooms' = [rooms EXCEPT
                   ![t.room_id].tried = @ \cup {who},
                   ![t.room_id].failed = IF o = "ok" THEN @ ELSE @ \cup {who}]
            /\ LET next == invite_loop_after(t.department, t.idx, o)
               IN  IF o # "ok"
                   THEN not_provisioned(i, t, "post_invite", "invite", o)
                   ELSE IF next = None
                   THEN provisioned(i, t, "post_invite", "invite", o)
                   ELSE LET t2 == [t EXCEPT !.idx = next]
                        IN  /\ tasks' = Continue(i, t2)
                            /\ last' = Step(t2, "post_invite", "invite",
                                            t.room_id, o, "none")
                            /\ UNCHANGED user_sessions
        /\ UNCHANGED <<impl, peer, space_cache, nEvents, conv_seq>>

\* invite_support_users_to_room: the POST invite for support_users[idx]
\* answers; the loop goes on, or ends and the room id is returned.
invite_support_users_to_room(i) ==
    LET t == tasks[i]
        who == departments[t.department].support_users[t.idx]
    IN  /\ impl = "space"
        /\ t.pc = "post_invite"
        /\ \E o \in Outcomes :
            /\ MayBe(o)
            /\ nFail' = Failures(o)
            /\ rooms' = [rooms EXCEPT
                   ![t.room_id].tried = @ \cup {who},
                   ![t.room_id].failed = IF o = "ok" THEN @ ELSE @ \cup {who}]
            /\ LET next == invite_loop_after(t.department, t.idx, o)
               IN  IF next = None
                   THEN provisioned(i, t, "post_invite", "invite", o)
                   ELSE LET t2 == [t EXCEPT !.idx = next]
                        IN  /\ tasks' = Continue(i, t2)
                            /\ last' = Step(t2, "post_invite", "invite",
                                            t.room_id, o, "none")
                            /\ UNCHANGED user_sessions
        /\ UNCHANGED <<impl, peer, space_cache, nEvents, conv_seq>>

\* ------------------------------------------------- DepartmentRouter
\* create_matrix_room: POST createRoom answers; on 200 the department's
\* bot user is invited next, otherwise None is returned.
create_matrix_room(i) ==
    LET t == tasks[i]
        id == Len(rooms) + 1
    IN  /\ impl = "router"
        /\ t.pc = "post_room"
        /\ \E o \in Outcomes :
            /\ MayBe(o)
            /\ nFail' = Failures(o)
            /\ IF o = "ok"
               THEN LET t2 == [t EXCEPT !.room_id = id, !.pc = "post_invite"]
                    IN  /\ rooms' = Append(rooms,
                                       NewRoom("conv", t.user, t.department))
                        /\ tasks' = Continue(i, t2)
                        /\ last' = Step(t2, "post_room", "createRoom", id, o,
                                        "none")
                        /\ UNCHANGED user_sessions
               ELSE /\ not_provisioned(i, t, "post_room", "createRoom", o)
                    /\ UNCHANGED rooms
        /\ UNCHANGED <<impl, peer, space_cache, nEvents, conv_seq>>

\* invite_to_room: the POST invite for bot_user_id answers; a failure is
\* logged only and create_matrix_room returns the room id.
invite_to_room(i) ==
    LET t == tasks[i]
        who == departments[t.department].bot_user_id
    IN  /\ impl = "router"
        /\ t.pc = "post_invite"
        /\ \E o \in Outcomes :
            /\ MayBe(o)
            /\ nFail' = Failures(o)
            /\ rooms' = [rooms EXCEPT
                   ![t.room_id].tried = @ \cup {who},
                   ![t.room_id].failed = IF o = "ok" THEN @ ELSE @ \cup {who}]
            /\ provisioned(i, t, "post_invite", "invite", o)
        /\ UNCHANGED <<impl, peer, space_cache, nEvents, conv_seq>>

\* ------------------------------------------------------- the relay
\* Mutant of send_initial_message: the handler ends after the confirmation,
\* without the initial message.
send_initial_message_skipped(i) ==
    LET t == tasks[i]
        t2 == [t EXCEPT !.pc = "done"]
    IN  /\ t.pc = "respond_confirm"
        /\ tasks' = Continue(i, t2)
        /\ last' = Step(t2, "respond_confirm", "none", None, "none", "none")
        /\ UNCHANGED <<impl, peer, user_sessions, space_cache, rooms, nEvents,
                       nFail, conv_seq>>

\* select_department after await event.respond(confirmation_message): the
\* initial message is sent to the room.
send_initial_message(i) ==
    LET t == tasks[i]
        t2 == [t EXCEPT !.message = "intro", !.pc = "post_message"]
    IN  /\ t.pc = "respond_confirm"
        /\ tasks' = Continue(i, t2)
        /\ last' = Step(t2, "respond_confirm", "none", None, "none", "none")
        /\ UNCHANGED <<impl, peer, user_sessions, space_cache, rooms, nEvents,
                       nFail, conv_seq>>

\* What send_matrix_message hands back to its caller after the POST ended
\* with outcome o: the function has no return statement on any path.
send_matrix_message_returns(o) == None

\* Mutant of send_matrix_message: every message is sent with the first
\* department's access token.
send_matrix_message_admin_token(i) ==
    LET t == tasks[i]
        t2 == [t EXCEPT !.pc = "done"]
    IN  /\ t.pc = "post_message"
        /\ \E o \in Outcomes :
            /\ MayBe(o)
            /\ nFail' = Failures(o)
            /\ rooms' = IF o = "ok"
                        THEN [rooms EXCEPT ![t.room_id].msgs =
                                 Append(@, [sender |-> t.user,
                                            body |-> t.message,
                                            token |-> 1])]
                        ELSE rooms
            /\ last' = Step(t2, "post_message", "send", t.room_id, o, "none")
        /\ tasks' = Continue(i, t2)
        /\ UNCHANGED <<impl, peer, user_sessions, space_cache, nEvents, conv_seq>>

\* Mutant of send_matrix_message: no try/except around the POST; a raised
\* exception leaves the handler's task dead, without an end.
send_matrix_message_uncaught(i) ==
    LET t == tasks[i]
    IN  /\ t.pc = "post_message"
        /\ \E o \in Outcomes :
            LET t2 == [t EXCEPT !.result = send_matrix_message_returns(o),
                                !.pc = IF o = "exc" THEN "crashed"
                                       ELSE "done"]
            IN  /\ MayBe(o)
                /\ nFail' = Failures(o)
                /\ rooms' = IF o = "ok"
                            THEN [rooms EXCEPT ![t.room_id].msgs =
                                     Append(@, [sender |-> t.user,
                                                body |-> t.message,
                                                token |-> t.department])]
                            ELSE rooms
                /\ last' = Step(t2, "post_message", "send", t.room_id, o,
                                "none")
                /\ tasks' = Continue(i, t2)
        /\ UNCHANGED <<impl, peer, user_sessions, space_cache, nEvents, conv_seq>>

\* Mutant of send_matrix_message: a failed request is sent again.
send_matrix_message_retry(i) ==
    LET t == tasks[i]
    IN  /\ t.pc = "post_message"
        /\ \E o \in Outcomes :
            LET t2 == [t EXCEPT !.result = send_matrix_message_returns(o),
                                !.pc = IF o = "ok" THEN "done"
                                       ELSE "post_message"]
            IN  /\ MayBe(o)
                /\ nFail' = Failures(o)
                /\ rooms' = IF o = "ok"
                            THEN [rooms EXCEPT ![t.room_id].msgs =
                                     Append(@, [sender |-> t.user,
                                                body |-> t.message,
                                                token |-> t.department])]
                            ELSE rooms
                /\ last' = Step(t2, "post_message", "send", t.room_id, o,
                                "none")
                /\ tasks' = Continue(i, t2)
        /\ UNCHANGED <<impl, peer, user_sessions, space_cache, nEvents, conv_seq>>

\* send_matrix_message: the POST send/m.room.message answers; both kinds of
\* failure are logged only; the caller gets the same result either way and
\* goes on.
send_matrix_message(i) ==
    LET t == tasks[i]
    IN  /\ t.pc = "post_message"
        /\ \E o \in Outcomes :
            LET t2 == [t EXCEPT !.result = send_matrix_message_returns(o),
                                !.pc = "done"]
            IN  /\ MayBe(o)
                /\ nFail' = Failures(o)
                /\ rooms' = IF o = "ok"
                            THEN [rooms EXCEPT ![t.room_id].msgs =
                                     Append(@, [sender |-> t.user,
                                                body |-> t.message,
                                                token |-> t.department])]
                            ELSE rooms
                /\ last' = Step(t2, "post_message", "send", t.room_id, o,
                                "none")
                /\ tasks' = Continue(i, t2)
        /\ UNCHANGED <<impl, peer, user_sessions, space_cache, nEvents, conv_seq>>

\* ---------------------------------------------- TelegramDepartmentBot
\* python-telegram-bot handles one update at a time, so each handler is one
\* step.  start_command: the keyboard is shown; no session is touched.
start_command(i) ==
    LET t == tasks[i]
        t2 == [t EXCEPT !.pc = "done"]
    IN  /\ impl = "bot"
        /\ t.pc = "recv"
        /\ t.kind = "start"
        /\ tasks' = Continue(i, t2)
        /\ last' = Step(t2, "recv", "none", None, "none", "welcome")
        /\ UNCHANGED <<impl, peer, user_sessions, space_cache, rooms, nEvents,
                       nFail, conv_seq>>

\* department_callback: an id that is no key of self.departments is
\* answered "Invalid department selection"; a known one stores a new
\* session with a new conversation_id.
department_callback(i) ==
    LET t == tasks[i]
        t2 == [t EXCEPT !.pc = "done"]
        dept_id == callback_department_id(t.arg)
    IN  /\ impl = "bot"
        /\ t.pc = "recv"
        /\ t.kind = "callback"
        /\ tasks' = Continue(i, t2)
        /\ IF dept_id \notin bot_departments
           THEN /\ last' = Step(t2, "recv", "none", None, "none", "not_found")
                /\ UNCHANGED <<user_sessions, conv_seq>>
           ELSE /\ conv_seq' = conv_seq + 1
                /\ user_sessions' =
                       SetSession(t.user, [department |-> dept_id,
                                           conversation_id |-> conv_seq + 1])
                /\ last' = Step(t2, "recv", "none", None, "none", "selected")
        /\ UNCHANGED <<impl, peer, space_cache, rooms, nEvents, nFail>>

\* TelegramDepartmentBot.handle_message: without a session the user is
\* told to /start; with one the text is only logged.
bot_handle_message(i) ==
    LET t == tasks[i]
        t2 == [t EXCEPT !.pc = "done"]
    IN  /\ impl = "bot"
        /\ t.pc = "recv"
        /\ t.kind = "text"
        /\ tasks' = Continue(i, t2)
        /\ last' = Step(t2, "recv", "none", None, "none",
                        IF HasSession(t.user) THEN "none" ELSE "please_start")
        /\ UNCHANGED <<impl, peer, user_sessions, space_cache, rooms, nEvents,
                       nFail, conv_seq>>

\* ------------------------------------------------------ specification
Init ==
    /\ impl \in {"space", "router", "bot"}
    /\ user_sessions = <<>>
    /\ space_cache = <<>>
    /\ tasks = <<>>
    /\ rooms = <<>>
    /\ nEvents = 0
    /\ nFail = 0
    /\ conv_seq = 0
    /\ last = NoStep
    /\ peer = NoPeer

\* Some handler in flight takes its next step.
Handle ==
    \/ \E i \in DOMAIN tasks : handle_start_command(i)
    \/ \E i \in DOMAIN tasks : show_department_selection(i)
    \/ \E i \in DOMAIN tasks : handle_callback_query(i)
    \/ \E i \in DOMAIN tasks : select_department(i)
    \/ \E i \in DOMAIN tasks : handle_message(i)
    \/ \E i \in DOMAIN tasks : ensure_root_space(i)
    \/ \E i \in DOMAIN tasks : ensure_telegram_space(i)
    \/ \E i \in DOMAIN tasks : add_space_to_parent(i)
    \/ \E i \in DOMAIN tasks : create_telegram_room_in_space(i)
    \/ \E i \in DOMAIN tasks : add_room_to_space(i)
    \/ \E i \in DOMAIN tasks : invite_support_users_to_room(i)
    \/ \E i \in DOMAIN tasks : create_matrix_room(i)
    \/ \E i \in DOMAIN tasks : invite_to_room(i)
    \/ \E i \in DOMAIN tasks : send_initial_message(i)
    \/ \E i \in DOMAIN tasks : send_matrix_message(i)
    \/ \E i \in DOMAIN tasks : start_command(i)
    \/ \E i \in DOMAIN tasks : department_callback(i)
    \/ \E i \in DOMAIN tasks : bot_handle_message(i)

Next ==
    \/ \E u \in Users, ev \in Events : Arrive(u, ev)
    \/ Handle

Spec == Init /\ [][Next]_vars

\* The scripted conversation of one user, its handlers interleaving freely.
NextInOrder ==
    \/ ArriveInOrder
    \/ Handle

SpecInOrder == Init /\ [][NextInOrder]_vars

\* One update at a time: the next update comes when no handler is in flight,
\* so that no two calls of a coroutine overlap.
ArriveAlone(u, ev) ==
    /\ tasks = <<>>
    /\ Arrive(u, ev)

NextSequential ==
    \/ \E u \in Users, ev \in Events : ArriveAlone(u, ev)
    \/ Handle

SpecSequential == Init /\ [][NextSequential]_vars

\* One update at a time with a homeserver that may fail every call of a
\* handler: the failure budget starts AllFailures calls higher.
InitFailing ==
    /\ impl \in {"space", "router", "bot"}
    /\ user_sessions = <<>>
    /\ space_cache = <<>>
    /\ tasks = <<>>
    /\ rooms = <<>>
    /\ nEvents = 0
    /\ nFail = MaxFailures - AllFailures
    /\ conv_seq = 0
    /\ last = NoStep
    /\ peer = NoPeer

SpecFailing == InitFailing /\ [][NextSequential]_vars

\* DepartmentRouter and TelegramSpaceIntegration side by side, one process
\* each, fed the same updates one at a time.  The variables hold the process
\* that runs, peer holds the other one.
Program ==
    [impl |-> impl, user_sessions |-> user_sessions,
     space_cache |-> space_cache, tasks |-> tasks, rooms |-> rooms,
     nEvents |-> nEvents, nFail |-> nFail, conv_seq |-> conv_seq,
     last |-> last]

InitBoth ==
    /\ impl = "router"
    /\ user_sessions = <<>>
    /\ space_cache = <<>>
    /\ tasks = <<>>
    /\ rooms = <<>>
    /\ nEvents = 0
    /\ nFail = 0
    /\ conv_seq = 0
    /\ last = NoStep
    /\ peer = [impl |-> "space", user_sessions |-> <<>>,
               space_cache |-> <<>>, tasks |-> <<>>, rooms |-> <<>>,
               nEvents |-> 0, nFail |-> 0, conv_seq |-> 0, last |-> NoStep]

\* What the homeserver answered to the createRoom or send request that
\* ended the last handler of p, when it was a failure; <<>> otherwise.
Answer(p) ==
    IF p.last.op \in {"createRoom", "send"} /\ p.last.outcome # "ok"
    THEN <<p.last.from, p.last.op, p.last.outcome>>
    ELSE <<>>

\* Both processes have handled the same updates and were given the same
\* answers.
InStep ==
    /\ tasks = <<>>
    /\ peer.tasks = <<>>
    /\ nEvents = peer.nEvents
    /\ Answer(Program) = Answer(peer)

\* The next update comes to the process that runs.
Lead(u, ev) ==
    /\ InStep
    /\ Arrive(u, ev)

\* The process that runs has handled the update; the other one takes over.
Swap ==
    /\ tasks = <<>>
    /\ nEvents > peer.nEvents
    /\ peer' = Program
    /\ impl' = peer.impl
    /\ user_sessions' = peer.user_sessions
    /\ space_cache' = peer.space_cache
    /\ tasks' = peer.tasks
    /\ rooms' = peer.rooms
    /\ nEvents' = peer.nEvents
    /\ nFail' = peer.nFail
    /\ conv_seq' = peer.conv_seq
    /\ last' = peer.last

\* The update that the other process has just handled comes to this one.
Follow ==
    /\ tasks = <<>>
    /\ nEvents < peer.nEvents
    /\ Arrive(peer.last.task.user,
              [kind |-> peer.last.task.kind, arg |-> peer.last.task.arg])

NextBoth ==
    \/ \E u \in Users, ev \in Events : Lead(u, ev)
    \/ Swap
    \/ Follow
    \/ \E i \in DOMAIN tasks : handle_start_command(i)
    \/ \E i \in DOMAIN tasks : show_department_selection(i)
    \/ \E i \in DOMAIN tasks : handle_callback_query(i)
    \/ \E i \in DOMAIN tasks : select_department(i)
    \/ \E i \in DOMAIN tasks : handle_message(i)
    \/ \E i \in DOMAIN tasks : ensure_root_space(i)
    \/ \E i \in DOMAIN tasks : ensure_telegram_space(i)
    \/ \E i \in DOMAIN tasks : add_space_to_parent(i)
    \/ \E i \in DOMAIN tasks : create_telegram_room_in_space(i)
    \/ \E i \in DOMAIN tasks : add_room_to_space(i)
    \/ \E i \in DOMAIN tasks : invite_support_users_to_room(i)
    \/ \E i \in DOMAIN tasks : create_matrix_room(i)
    \/ \E i \in DOMAIN tasks : invite_to_room(i)
    \/ \E i \in DOMAIN tasks : send_initial_message(i)
    \/ \E i \in DOMAIN tasks : send_matrix_message(i)

SpecBoth == InitBoth /\ [][NextBoth]_vars

\* =============================================================== claims
\* What the properties below read off a state.
Active(u) ==
    /\ impl # "bot"
    /\ u \in DOMAIN user_sessions
    /\ user_sessions[u].state = "chatting"

\* The user of task t was chatting when t's update arrived.
WasActive(t) ==
    /\ impl # "bot"
    /\ t.user \in DOMAIN t.sess0
    /\ t.sess0[t.user].state = "chatting"

Selection(t) == t.kind \in {"start", "callback"} /\ t.department # None

ConversationRooms(u, d) ==
    {r \in DOMAIN rooms :
        rooms[r].kind = "conv" /\ rooms[r].owner = u /\ rooms[r].dept = d}

SpacesOfKind(kind) == {r \in DOMAIN rooms : rooms[r].kind = kind}

\* Everyone the invite loop of department d has to invite.
Invitees(d) ==
    {departments[d].support_users[j] : j \in DOMAIN departments[d].support_users}
        \ {departments[d].bot_user_id}

\* No handler is still linking room r or inviting to it.
InvitesOver(r) ==
    \A i \in DOMAIN tasks :
        tasks[i].room_id = r =>
            tasks[i].pc \notin {"put_room_child", "post_invite"}

\* The user texts relayed to room r, in the room's order.
RelayedTexts(r) ==
    LET texts == SelectSeq(rooms[r].msgs, LAMBDA m : m.body # "intro")
    IN  [k \in 1..Len(texts) |-> texts[k].body]

UnknownDepartment(t) ==
    /\ t.kind = "callback"
    /\ starts_with_dept(t.arg)
    /\ \A k \in DOMAIN departments : departments[k].id # t.arg[2]
    /\ t.arg[2] \notin bot_departments

\* C1: idempotent room provisioning.  A user whose session is chatting with
\* department d selects d again, with no other update of that user since;
\* the selection issues no createRoom call for a conversation room and the
\* session's room id stays the one of the first selection.
C1_IdempotentProvisioning ==
    LET t == last.task
    IN  (/\ Selection(t)
         /\ t.solo
         /\ WasActive(t)
         /\ t.sess0[t.user].department = t.department)
        => /\ ~(last.op = "createRoom" /\ last.from = "post_room")
           /\ last.reply = "confirmation" =>
                  user_sessions[t.user].matrix_room_id =
                      t.sess0[t.user].matrix_room_id

\* C2: at most one conversation room is ever created for a user and a
\* department.
C2_OneRoomPerUserAndDepartment ==
    \A u \in Users : \A d \in DOMAIN departments :
        Cardinality(ConversationRooms(u, d)) <= 1

\* C3: single-flight space resolution.  With every remote call succeeding,
\* at most one root space and one Telegram space are created, and all
\* handlers that resolved the space hold the same id.
C3_SingleFlightSpaceResolution ==
    (impl = "space" /\ nFail = 0)
    => /\ Cardinality(SpacesOfKind("root")) <= 1
       /\ Cardinality(SpacesOfKind("channel")) <= 1
       /\ \A i, j \in DOMAIN tasks :
              (tasks[i].pc \in {"post_room", "put_room_child", "post_invite"}
               /\ tasks[j].pc \in {"post_room", "put_room_child", "post_invite"})
              => tasks[i].telegram_space_id = tasks[j].telegram_space_id

\* C4: per-user ordering.  /start, the button of department A, "hi" and
\* "bye" arrive in this order and no call fails: neither text is answered
\* with the department keyboard, and when all handlers are done the room
\* created for A holds "hi" and then "bye".
C4_PerUserOrdering ==
    (impl = "space" /\ nFail = 0)
    => /\ last.task.kind = "text" => last.reply # "welcome"
       /\ (nEvents = Len(Script) /\ tasks = <<>>)
          => \E r \in ConversationRooms("u1", 1) :
                 RelayedTexts(r) = <<"hi", "bye">>

\* C5: guard against premature relay.  A text handler that finds no session,
\* or a session that is not chatting, makes no Matrix call, answers with the
\* department prompt, and when it ends the user is not chatting; a text
\* whose user was not chatting when it arrived (and stayed alone) never
\* waits for a Matrix call.
C5_NoPrematureRelay ==
    LET t == last.task
    IN  /\ (impl # "bot" /\ t.kind = "text" /\ last.from = "recv"
            /\ ~Active(t.user))
           => (last.op = "none" /\ last.reply = "welcome"
               /\ t.pc = "respond_welcome" /\ t.room_id = None)
        /\ (impl # "bot" /\ t.kind = "text" /\ last.from = "respond_welcome")
           => (last.op = "none" /\ t.pc = "done" /\ t.room_id = None
               /\ ~Active(t.user))
        /\ (impl = "bot" /\ t.kind = "text" /\ last.from = "recv"
            /\ t.user \notin DOMAIN user_sessions)
           => (last.op = "none" /\ last.reply = "please_start"
               /\ t.pc = "done")
        /\ \A i \in DOMAIN tasks :
               (tasks[i].kind = "text" /\ tasks[i].solo
                /\ ~WasActive(tasks[i]))
               => tasks[i].pc \in {"recv", "respond_welcome"}

\* C5 witness: a text of a user who was selecting a department has been
\* answered with the prompt and its handler has ended.
C5_Witness ==
    /\ impl = "space"
    /\ last.task.kind = "text"
    /\ last.from = "respond_welcome"
    /\ last.task.user \in DOMAIN last.task.sess0
    /\ rooms = <<>>

\* C6: invite independence.  Department A has the support users @s1, @s2
\* and @s3; when the invite of @s2 to a room failed and the invite loop for
\* the room is over, @s1 and @s3 have each been sent an invite.
C6_InviteIndependence ==
    \A r \in DOMAIN rooms :
        (/\ impl = "space"
         /\ rooms[r].kind = "conv"
         /\ "@s2" \in rooms[r].failed
         /\ InvitesOver(r))
        => {"@s1", "@s3"} \subseteq rooms[r].tried

\* C7: invite failures are not fatal.  A handler that has created its
\* conversation room never answers "couldn't connect"; when it confirms,
\* the session is chatting in exactly that room with that department, and
\* the room exists on the homeserver.
C7_InviteFailuresNotFatal ==
    LET t == last.task
    IN  /\ last.reply = "error" => t.room_id = None
        /\ last.reply = "confirmation"
           => /\ Active(t.user)
              /\ user_sessions[t.user] =
                     [state |-> "chatting", department |-> t.department,
                      matrix_room_id |-> t.room_id]
              /\ t.room_id \in ConversationRooms(t.user, t.department)
        /\ \A i \in DOMAIN tasks :
               (Selection(tasks[i]) /\ tasks[i].room_id # None)
               => tasks[i].room_id \in
                      ConversationRooms(tasks[i].user, tasks[i].department)

\* C7 witness: a selection is confirmed although an invite to its room
\* failed.
C7_Witness ==
    /\ last.reply = "confirmation"
    /\ rooms[last.task.room_id].failed # {}
    /\ Active(last.task.user)

\* The user u, chatting in room r1, selected another department; that
\* selection created a room of its own and the session points to it now.
SwitchedAway(u, r1) ==
    \E j \in DOMAIN tasks :
        LET s == tasks[j]
        IN  /\ s.user = u
            /\ Selection(s)
            /\ s.pc \in {"respond_confirm", "post_message"}
            /\ WasActive(s)
            /\ s.sess0[u].matrix_room_id = r1
            /\ s.sess0[u].department # s.department
            /\ s.room_id # r1
            /\ Active(u)
            /\ user_sessions[u].matrix_room_id = s.room_id

\* C8: department switch.  A user chatting in room R1 of department A
\* selects department B: a new room R2 becomes the session's room, and from
\* then on R1 receives no send call.
C8_DepartmentSwitch ==
    last.op = "send" => ~SwitchedAway(last.task.user, last.room)

\* C9: unknown department id.  The handler of a button press whose id is in
\* no registry ends in its first step, answers "not found", makes no Matrix
\* call, and leaves every session, the space cache and the homeserver as
\* they were.
C9_UnknownDepartment ==
    [][UnknownDepartment(last'.task) /\ last'.from = "recv"
       => /\ user_sessions' = user_sessions
          /\ space_cache' = space_cache
          /\ rooms' = rooms
          /\ nFail' = nFail
          /\ last'.op = "none"
          /\ last'.reply = "not_found"
          /\ last'.task.pc = "done"]_vars

\* C9 witness: a chatting user pressed a button with an unknown id and got
\* the error.
C9_Witness ==
    /\ UnknownDepartment(last.task)
    /\ last.reply = "not_found"
    /\ Active(last.task.user)

\* C10: provisioning failure does not transition.  A failing createRoom
\* call (root space, Telegram space or conversation room) ends the handler
\* with the error reply and leaves every session as it was; the error reply
\* is given for nothing else; no earlier step of a selection touches the
\* sessions; and a selection always starts provisioning with a createRoom
\* call, the space resolution again while no space is cached.
C10_ProvisioningFailure ==
    [][/\ (last'.op = "createRoom" /\ last'.outcome # "ok")
          => (last'.reply = "error" /\ last'.task.pc = "done"
              /\ user_sessions' = user_sessions
              /\ space_cache' = space_cache)
       /\ last'.reply = "error"
          => (last'.op = "createRoom" /\ last'.outcome # "ok"
              /\ user_sessions' = user_sessions)
       /\ (Selection(last'.task) /\ last'.reply # "confirmation")
          => user_sessions' = user_sessions
       /\ (Selection(last'.task) /\ impl # "bot"
           /\ last'.from \in {"recv", "edit_connecting"}
           /\ last'.task.pc # "edit_connecting")
          => IF impl = "space" /\ "telegram" \notin DOMAIN space_cache
             THEN last'.task.pc = "post_root"
             ELSE last'.task.pc = "post_room"]_vars

\* C10 witness: the createRoom call of a conversation room failed for a
\* user who was selecting a department; the user got the error reply and
\* still is selecting.
C10_Witness ==
    /\ impl = "space"
    /\ last.op = "createRoom"
    /\ last.from = "post_room"
    /\ last.outcome # "ok"
    /\ last.reply = "error"
    /\ last.task.user \in DOMAIN user_sessions
    /\ user_sessions[last.task.user] = SelectingSession
    /\ last.task.sess0 = SessionOf(user_sessions, last.task.user)

\* The initial messages that reached room r.
Introductions(r) ==
    {k \in DOMAIN rooms[r].msgs : rooms[r].msgs[k].body = "intro"}

\* C11: successful selection.  When a selection of department D is
\* confirmed, the session is chatting with D in the room that this
\* selection's createRoom call returned; the handler then issues one send
\* call with the initial message to that room, and no room ever gets a
\* second initial message.
C11_SuccessfulSelection ==
    LET t == last.task
    IN  /\ (last.op = "createRoom" /\ last.from = "post_room"
            /\ last.outcome = "ok")
           => (t.room_id = Len(rooms) /\ last.room = t.room_id
               /\ rooms[t.room_id].kind = "conv")
        /\ last.reply = "confirmation"
           => /\ Selection(t)
              /\ t.pc = "respond_confirm"
              /\ last.room = t.room_id
              /\ user_sessions[t.user] =
                     ChattingSession(t.department, t.room_id)
              /\ rooms[t.room_id].owner = t.user
              /\ rooms[t.room_id].dept = t.department
        /\ \A i \in DOMAIN tasks :
               (Selection(tasks[i])
                /\ tasks[i].pc \in {"respond_confirm", "post_message"})
               => /\ tasks[i].room_id \in DOMAIN rooms
                  /\ Introductions(tasks[i].room_id) = {}
                  /\ tasks[i].pc = "post_message"
                     => tasks[i].message = "intro"
        /\ (Selection(t) /\ t.room_id # None /\ t.pc = "done"
            /\ last.reply # "error")
           => (last.op = "send" /\ last.from = "post_message"
               /\ last.room = t.room_id /\ t.message = "intro")
        /\ \A r \in DOMAIN rooms : Cardinality(Introductions(r)) <= 1

\* C11 witness: the initial message of a confirmed selection reached the
\* room the session points to.
C11_Witness ==
    /\ Selection(last.task)
    /\ last.op = "send"
    /\ last.outcome = "ok"
    /\ Introductions(last.room) # {}
    /\ Active(last.task.user)
    /\ user_sessions[last.task.user] =
           ChattingSession(last.task.department, last.room)

\* C12: relay in ACTIVE (DepartmentRouter, TelegramSpaceIntegration).  The
\* handler of a text that finds its user chatting takes the room and the
\* department of the session, issues one send call to that room with that
\* department's credential and the user's text, and ends; neither step
\* changes a session.  A text of a user who was chatting when it came, with
\* no other handler of that user around, goes to the room of that session.
C12_RelayInActive ==
    [][LET t == last'.task
           u == t.user
       IN  /\ (impl # "bot" /\ t.kind = "text" /\ last'.from = "recv"
               /\ IsChatting(u))
              => /\ t.pc = "post_message"
                 /\ t.room_id = user_sessions[u].matrix_room_id
                 /\ t.department = user_sessions[u].department
                 /\ t.message = t.arg[1]
                 /\ last'.op = "none"
                 /\ user_sessions' = user_sessions
                 /\ rooms' = rooms
           /\ (t.kind = "text" /\ last'.from = "post_message")
              => /\ last'.op = "send"
                 /\ last'.room = t.room_id
                 /\ t.pc = "done"
                 /\ user_sessions' = user_sessions
                 /\ rooms' = IF last'.outcome = "ok"
                             THEN [rooms EXCEPT ![t.room_id].msgs =
                                      Append(@, [sender |-> u,
                                                 body |-> t.arg[1],
                                                 token |-> t.department])]
                             ELSE rooms
           /\ (impl # "bot" /\ t.kind = "text" /\ t.solo /\ WasActive(t)
               /\ last'.from \in {"recv", "post_message"})
              => /\ last'.from = "recv" => t.pc = "post_message"
                 /\ t.room_id = t.sess0[u].matrix_room_id
                 /\ t.department = t.sess0[u].department
                 /\ SessionOf(user_sessions', u) = t.sess0]_vars

\* C12 witness: the text of a chatting user reached the room of the session
\* with the token of a department other than the first.
C12_Witness ==
    /\ last.task.kind = "text"
    /\ last.task.solo
    /\ WasActive(last.task)
    /\ last.op = "send"
    /\ last.outcome = "ok"
    /\ last.task.department = 2
    /\ last.room = user_sessions[last.task.user].matrix_room_id
    /\ rooms[last.room].msgs[Len(rooms[last.room].msgs)].body =
           last.task.arg[1]

\* The /start command of task t names a configured department.
NamesDepartment(t) ==
    /\ t.kind = "start"
    /\ command_department_id(t.arg) # ""
    /\ \E k \in DOMAIN departments :
           departments[k].id = command_department_id(t.arg)

\* C13 as stated: no /start of a user without a session leads to a Matrix
\* call; its handler only shows the keyboard.
C13_StartNeverProvisions ==
    LET t == last.task
    IN  (impl # "bot" /\ t.kind = "start" /\ t.sess0 = <<>>)
        => (last.op = "none"
            /\ t.pc \in {"recv", "respond_welcome", "done"})

\* C13: lazy provisioning on first contact (DepartmentRouter,
\* TelegramSpaceIntegration).  A /start that names no configured department
\* presents the department choices and then stores a session in state
\* selecting_department; its handler issues no Matrix call and creates no
\* room.
C13_LazyProvisioning ==
    [][LET t == last'.task
       IN  (impl # "bot" /\ t.kind = "start" /\ ~NamesDepartment(t))
           => /\ last'.op = "none"
              /\ rooms' = rooms
              /\ nFail' = nFail
              /\ space_cache' = space_cache
              /\ last'.from = "arrive"
                 => (t.pc = "recv" /\ user_sessions' = user_sessions)
              /\ last'.from = "recv"
                 => (t.pc = "respond_welcome" /\ last'.reply = "welcome"
                     /\ user_sessions' = user_sessions)
              /\ last'.from = "respond_welcome"
                 => (t.pc = "done"
                     /\ t.user \in DOMAIN user_sessions'
                     /\ user_sessions'[t.user] = SelectingSession
                     /\ \A v \in DOMAIN user_sessions' \ {t.user} :
                            /\ v \in DOMAIN user_sessions
                            /\ user_sessions'[v] = user_sessions[v])
              /\ last'.from \in {"arrive", "recv", "respond_welcome"}]_vars

\* C13 witness: the first /start of a user has been answered with the
\* keyboard and the session is selecting; nothing exists on the homeserver.
C13_Witness ==
    /\ impl # "bot"
    /\ last.task.kind = "start"
    /\ last.task.sess0 = <<>>
    /\ last.from = "respond_welcome"
    /\ user_sessions[last.task.user] = SelectingSession
    /\ rooms = <<>>
    /\ nFail = 0

\* C14: space resolution failure.  When the createRoom call of the root
\* space or of the Telegram space fails, the resolution raises (the
\* selection ends with the error reply) and space_cache has no 'telegram'
\* entry afterwards.
C14_SpaceResolutionFailure ==
    (/\ impl = "space"
     /\ last.op = "createRoom"
     /\ last.from \in {"post_root", "post_telegram"}
     /\ last.outcome # "ok")
    => /\ last.reply = "error"
       /\ last.task.pc = "done"
       /\ "telegram" \notin DOMAIN space_cache

\* C15: sequential idempotence of space resolution.  With one call at a
\* time: the id that ensure_telegram_space_hierarchy returns is the one it
\* caches; once an id is cached it stays; and a later call returns the
\* cached id without a remote call.
C15_SequentialIdempotence ==
    [][LET t == last'.task
       IN  /\ "telegram" \in DOMAIN space_cache
              => space_cache' = space_cache
           /\ last'.from = "put_space_child"
              => (t.pc = "post_room"
                  /\ space_cache' = [k \in {"telegram"} |->
                                        t.telegram_space_id])
           /\ (/\ impl = "space"
               /\ Selection(t)
               /\ last'.from \in {"recv", "edit_connecting"}
               /\ t.pc # "edit_connecting"
               /\ "telegram" \in DOMAIN space_cache)
              => /\ t.pc = "post_room"
                 /\ t.telegram_space_id = space_cache["telegram"]
                 /\ last'.op = "none"
                 /\ rooms' = rooms
                 /\ nFail' = nFail]_vars

\* C15 witness: a second selection got the cached id of the Telegram space
\* that the first selection's resolution had created.
C15_Witness ==
    /\ impl = "space"
    /\ Selection(last.task)
    /\ last.from \in {"recv", "edit_connecting"}
    /\ last.task.pc = "post_room"
    /\ "telegram" \in DOMAIN space_cache
    /\ last.task.telegram_space_id = space_cache["telegram"]
    /\ Cardinality(SpacesOfKind("channel")) = 1
    /\ \E r \in DOMAIN rooms : rooms[r].kind = "conv"

\* C16: relay failure is reported.  When the send call fails, the caller of
\* send_matrix_message holds a result that differs from the result of a
\* successful send.
C16_RelayFailureReported ==
    (last.op = "send" /\ last.outcome # "ok")
    => last.task.result # send_matrix_message_returns("ok")

\* Room r holds the text m of user u.
Delivered(r, u, m) ==
    /\ r \in DOMAIN rooms
    /\ \E k \in DOMAIN rooms[r].msgs :
           rooms[r].msgs[k].sender = u /\ rooms[r].msgs[k].body = m

\* C17: at-least-once outbound delivery.  Nothing but the handler of a text
\* ever sends it, so the text of a user who was chatting when it came (and
\* has no other update in flight) has to be in the session's room when its
\* handler has ended.
C17_AtLeastOnceDelivery ==
    LET t == last.task
    IN  (/\ impl # "bot"
         /\ t.kind = "text"
         /\ WasActive(t)
         /\ t.solo
         /\ t.pc = "done"
         /\ last.from = "post_message")
        => Delivered(t.room_id, t.user, t.arg[1])

\* The department id that the handler of task t looks up in the registry;
\* "" when it looks nothing up.
LookedUp(t) ==
    IF t.kind = "start" THEN command_department_id(t.arg)
    ELSE IF t.kind = "callback" /\ starts_with_dept(t.arg)
    THEN callback_department_id(t.arg)
    ELSE ""

\* C18: registry lookup.  The step of a handler that calls
\* get_department_by_id goes on with the configured department of that id
\* when there is one, and with None (the handler ends or shows the keyboard,
\* nothing is raised) when there is none; the step changes no session, no
\* cache entry and nothing on the homeserver.
C18_RegistryLookup ==
    [][LET t == last'.task
           id == LookedUp(t)
       IN  (impl # "bot" /\ last'.from = "recv" /\ id # "")
           => /\ user_sessions' = user_sessions
              /\ space_cache' = space_cache
              /\ rooms' = rooms
              /\ nFail' = nFail
              /\ last'.op = "none"
              /\ IF \E k \in DOMAIN departments : departments[k].id = id
                 THEN /\ t.department \in DOMAIN departments
                      /\ departments[t.department].id = id
                      /\ t.pc \in {"edit_connecting", "post_root",
                                   "post_room"}
                 ELSE /\ t.department = None
                      /\ t.pc \in {"done", "respond_welcome"}
                      /\ last'.reply \in {"not_found", "welcome"}]_vars

\* C18 witness: the lookup of "B" gave the second configured department.
C18_Witness ==
    /\ impl # "bot"
    /\ last.from = "recv"
    /\ LookedUp(last.task) = "B"
    /\ last.task.department = 2
    /\ departments[2].id = "B"

\* C19: every conversation room that provisioning returns (the room of a
\* confirmed selection, the room a session holds) is a child of a Telegram
\* space: the m.space.child link to it has been established.
C19_RoomsAreChildren ==
    /\ (impl = "space" /\ last.reply = "confirmation")
       => /\ rooms[last.room].parent \in SpacesOfKind("channel")
          /\ rooms[last.room].parent = last.task.telegram_space_id
    /\ \A u \in DOMAIN user_sessions :
           (impl = "space" /\ user_sessions[u].state = "chatting")
           => rooms[user_sessions[u].matrix_room_id].parent
                  \in SpacesOfKind("channel")

\* C20: whenever space_cache holds the id of the Telegram space, that space
\* has been linked as a child of a root space.
C20_CachedSpaceIsLinked ==
    (impl = "space" /\ "telegram" \in DOMAIN space_cache)
    => /\ space_cache["telegram"] \in SpacesOfKind("channel")
       /\ rooms[space_cache["telegram"]].parent \in SpacesOfKind("root")

\* The spaces that conversation rooms have been attached to.
ParentsOfConversationRooms(rs) ==
    {rs[r].parent : r \in {q \in DOMAIN rs : rs[q].kind = "conv"}} \ {None}

\* C21: first-writer-wins channel space.  Once space_cache['telegram'] is set
\* it never changes, and all conversation rooms are attached under one and
\* the same Telegram space.
C21_FirstWriterWins ==
    [][/\ "telegram" \in DOMAIN space_cache => space_cache' = space_cache
       /\ Cardinality(ParentsOfConversationRooms(rooms')) <= 1]_vars

\* C22: fatal provisioning errors stop the remaining steps.  A failed
\* createRoom (root space, Telegram space, conversation room) ends the
\* provisioning without a room id and with the error reply; the createRoom
\* of a conversation room is only sent once the Telegram space is resolved,
\* and link and invite calls are only sent for a room that was created.
C22_FatalErrorsStop ==
    LET t == last.task
    IN  /\ (last.op = "createRoom" /\ last.outcome # "ok")
           => /\ t.pc = "done"
              /\ t.room_id = None
              /\ last.room = None
              /\ last.reply = "error"
        /\ \A i \in DOMAIN tasks :
               /\ (impl = "space" /\ tasks[i].pc = "post_room")
                  => /\ tasks[i].telegram_space_id \in SpacesOfKind("channel")
                     /\ tasks[i].room_id = None
               /\ tasks[i].pc = "post_telegram"
                  => tasks[i].root_space_id \in SpacesOfKind("root")
               /\ tasks[i].pc \in {"put_room_child", "post_invite"}
                  => tasks[i].room_id \in
                        ConversationRooms(tasks[i].user, tasks[i].department)
        /\ last.op \in {"link", "invite"} => last.room \in DOMAIN rooms

\* C22 witness: the spaces are there, the createRoom of the conversation
\* room failed, and no conversation room exists.
C22_Witness ==
    /\ impl = "space"
    /\ last.op = "createRoom"
    /\ last.from = "post_room"
    /\ last.outcome # "ok"
    /\ last.reply = "error"
    /\ SpacesOfKind("channel") # {}
    /\ SpacesOfKind("conv") = {}

\* The selection that created room r has not sent its initial message yet.
IntroductionPending(r) ==
    \E i \in DOMAIN tasks :
        /\ Selection(tasks[i])
        /\ tasks[i].room_id = r
        /\ tasks[i].pc \in {"respond_confirm", "post_message"}

\* C23: introduction first.  When the send call of a user's text to a room
\* has been made, the selection that created the room is not still about to
\* send its initial message, and a text that reached a room never is the
\* room's first message.
C23_IntroductionFirst ==
    /\ (last.op = "send" /\ last.task.kind = "text")
       => ~IntroductionPending(last.room)
    /\ \A r \in DOMAIN rooms :
           (rooms[r].msgs # <<>> /\ rooms[r].msgs[1].body # "intro")
           => \A i \in DOMAIN tasks : tasks[i].room_id # r

\* C24 as stated: a session is chatting only if it was selecting a
\* department before.  Sessions are never removed and only the user's own
\* handlers write the user's session, so a selection that came when its user
\* had no session, with no other handler of that user in flight since, must
\* not be confirmed.
C24_OnlyThroughAwaiting ==
    (impl # "bot" /\ last.reply = "confirmation" /\ last.task.solo)
    => last.task.user \in DOMAIN last.task.sess0

\* C24: a session reaches ACTIVE only through a successful selection.  A
\* step that makes a user's session chatting, or changes a chatting session,
\* is the confirmation step of a selection of that user, and the session is
\* the selection's department and room; whatever the session was before.
C24_ActiveOnlyBySelection ==
    [][\A u \in Users :
          (/\ impl # "bot"
           /\ u \in DOMAIN user_sessions'
           /\ user_sessions'[u].state = "chatting"
           /\ SessionOf(user_sessions', u) # SessionOf(user_sessions, u))
          => /\ last'.reply = "confirmation"
             /\ last'.task.user = u
             /\ Selection(last'.task)
             /\ last'.task.room_id \in DOMAIN rooms
             /\ user_sessions'[u] =
                    ChattingSession(last'.task.department,
                                    last'.task.room_id)]_vars

\* C24 witness: the selection of a user who never had a session is
\* confirmed, the session is chatting.
C24_Witness ==
    /\ impl # "bot"
    /\ last.reply = "confirmation"
    /\ last.task.solo
    /\ last.task.sess0 = <<>>
    /\ Active(last.task.user)

\* C25: the conversation id of a session is generated once.  In
\* TelegramDepartmentBot no step changes the conversation_id of a user who
\* has a session.
C25_ConversationIdStable ==
    [][\A u \in Users :
          (/\ impl = "bot"
           /\ u \in DOMAIN user_sessions
           /\ u \in DOMAIN user_sessions')
          => user_sessions'[u].conversation_id =
                 user_sessions[u].conversation_id]_vars

\* C26: in TelegramDepartmentBot the text of a user who has selected a
\* department causes a support room to be created: when the text has been
\* handled, a createRoom call was issued and a room of that user exists.
C26_FirstMessageCreatesRoom ==
    (/\ impl = "bot"
     /\ last.task.kind = "text"
     /\ last.from = "recv"
     /\ last.task.user \in DOMAIN user_sessions)
    => /\ last.op = "createRoom"
       /\ \E r \in DOMAIN rooms : rooms[r].owner = last.task.user

\* The next step of the handler in flight at position i.
TaskStep(i) ==
    \/ handle_start_command(i) \/ show_department_selection(i)
    \/ handle_callback_query(i) \/ select_department(i)
    \/ handle_message(i) \/ ensure_root_space(i)
    \/ ensure_telegram_space(i) \/ add_space_to_parent(i)
    \/ create_telegram_room_in_space(i) \/ add_room_to_space(i)
    \/ invite_support_users_to_room(i) \/ create_matrix_room(i)
    \/ invite_to_room(i) \/ send_initial_message(i)
    \/ send_matrix_message(i) \/ start_command(i)
    \/ department_callback(i) \/ bot_handle_message(i)

\* Every session of the Telethon routers is selecting, or chatting in a
\* room that exists.
WellFormedSessions ==
    impl # "bot"
    => \A u \in DOMAIN user_sessions :
           \/ user_sessions[u] = SelectingSession
           \/ /\ DOMAIN user_sessions[u] =
                     {"state", "department", "matrix_room_id"}
              /\ user_sessions[u].state = "chatting"
              /\ user_sessions[u].department \in DOMAIN departments
              /\ user_sessions[u].matrix_room_id \in DOMAIN rooms

\* C27: remote failures never crash a handler.  Whatever Matrix calls fail,
\* every handler in flight has a next step; a failed call is followed by the
\* error reply and the end of the handler (createRoom), by the next
\* provisioning step or the confirmation (link, invite), or by the silent
\* end of the handler (send); a handler that has ended got there by one of
\* its regular ends; and the session map stays well-formed.
C27_FailuresNeverCrash ==
    LET t == last.task
    IN  /\ \A i \in DOMAIN tasks : ENABLED TaskStep(i)
        /\ last.outcome \in {"http", "exc"}
           => \/ /\ last.op = "createRoom"
                 /\ last.reply = "error" /\ t.pc = "done"
              \/ /\ last.op = "link"
                 /\ \/ t.pc \in {"post_room", "post_invite"}
                    \/ last.reply = "confirmation" /\ t.pc = "respond_confirm"
              \/ /\ last.op = "invite"
                 /\ \/ t.pc = "post_invite" /\ last.outcome = "http"
                    \/ last.reply = "confirmation" /\ t.pc = "respond_confirm"
              \/ /\ last.op = "send"
                 /\ last.reply = "none" /\ t.pc = "done"
        /\ (impl # "bot" /\ t.kind # "none" /\ t.pc = "done")
           => \/ last.reply \in {"error", "not_found"}
              \/ last.op = "send" /\ last.from = "post_message"
              \/ last.from = "respond_welcome"
              \/ t.kind = "callback" /\ ~starts_with_dept(t.arg)
        /\ WellFormedSessions

\* C27 witness: a selection was confirmed and its handler ended although
\* the link of its room, an invite and the send of its initial message
\* failed.
C27_Witness ==
    /\ impl = "space"
    /\ Selection(last.task)
    /\ last.task.pc = "done"
    /\ last.op = "send"
    /\ last.outcome # "ok"
    /\ rooms[last.room].parent = None
    /\ rooms[last.room].failed # {}
    /\ Active(last.task.user)

\* The messages in the first n rooms of rs.
RECURSIVE TotalMessages(_, _)
TotalMessages(rs, n) ==
    IF n = 0 THEN 0 ELSE Len(rs[n].msgs) + TotalMessages(rs, n - 1)

\* C28: no internal retry.  The step in which a send request ends is the
\* end of its handler, whatever the outcome, and it adds one message to the
\* room on success and nothing otherwise; a handler gets to a send request
\* only from reading its update or from the confirmation; so the rooms never
\* hold more messages than updates have come.
C28_NoInternalRetry ==
    [][LET t == last'.task
       IN  /\ last'.op = "send"
              => /\ last'.from = "post_message"
                 /\ t.pc = "done"
                 /\ \A r \in DOMAIN rooms :
                        rooms'[r].msgs =
                            IF r = last'.room /\ last'.outcome = "ok"
                            THEN Append(rooms[r].msgs,
                                        rooms'[r].msgs[Len(rooms'[r].msgs)])
                            ELSE rooms[r].msgs
           /\ last'.op # "send"
              => \A r \in DOMAIN rooms : rooms'[r].msgs = rooms[r].msgs
           /\ t.pc = "post_message"
              => \/ t.kind = "text" /\ last'.from = "recv"
                 \/ Selection(t) /\ last'.from = "respond_confirm"
           /\ TotalMessages(rooms', Len(rooms')) <= nEvents']_vars

\* C28 witness: the send request of a chatting user's text failed, the
\* handler has ended and the text is in no room.
C28_Witness ==
    /\ last.task.kind = "text"
    /\ last.op = "send"
    /\ last.outcome # "ok"
    /\ last.task.pc = "done"
    /\ \A r \in DOMAIN rooms :
           ~Delivered(r, last.task.user, last.task.arg[1])

\* C29: session well-formedness (DepartmentRouter,
\* TelegramSpaceIntegration).  Every session record is either selecting,
\* with no other key, or chatting with a configured department and the id
\* of a conversation room.
C29_SessionWellFormed ==
    impl # "bot"
    => \A u \in DOMAIN user_sessions :
           LET s == user_sessions[u]
           IN  /\ "state" \in DOMAIN s
               /\ s.state \in {"selecting_department", "chatting"}
               /\ s.state = "selecting_department"
                  => DOMAIN s = {"state"}
               /\ s.state = "chatting"
                  => /\ DOMAIN s = {"state", "department", "matrix_room_id"}
                     /\ s.department \in DOMAIN departments
                     /\ s.matrix_room_id # None
                     /\ s.matrix_room_id \in SpacesOfKind("conv")

\* C29 witness: a user who was chatting sent /start and is selecting again.
C29_Witness ==
    /\ impl # "bot"
    /\ last.from = "respond_welcome"
    /\ WasActive(last.task)
    /\ user_sessions[last.task.user] = SelectingSession

\* C30: binding consistency.  The room of a chatting session was created
\* for that user and for the department of the session, and so is the
\* (department, room) pair that a text handler has read from the session
\* and is about to send with.
C30_BindingConsistency ==
    /\ \A u \in DOMAIN user_sessions :
           Active(u)
           => user_sessions[u].matrix_room_id
                  \in ConversationRooms(u, user_sessions[u].department)
    /\ \A i \in DOMAIN tasks :
           (tasks[i].kind = "text" /\ tasks[i].pc = "post_message")
           => tasks[i].room_id
                  \in ConversationRooms(tasks[i].user, tasks[i].department)
    /\ \A r \in DOMAIN rooms :
           \A k \in DOMAIN rooms[r].msgs :
               /\ rooms[r].msgs[k].token = rooms[r].dept
               /\ rooms[r].msgs[k].sender = rooms[r].owner

\* C30 witness: a user chatting with department A selected department B;
\* the session holds B with the room created for B while that user's room
\* for A exists.
C30_Witness ==
    /\ impl # "bot"
    /\ last.reply = "confirmation"
    /\ WasActive(last.task)
    /\ last.task.sess0[last.task.user].department = 1
    /\ user_sessions[last.task.user] = ChattingSession(2, last.room)
    /\ rooms[last.room].dept = 2
    /\ ConversationRooms(last.task.user, 1) # {}

\* C31: cross-user isolation.  A step of a handler of user u leaves the
\* session of every other user as it was, present or absent; a send request
\* of a text goes to a room created for the sender, and a text handler only
\* ever holds a room of its own user.
C31_CrossUserIsolation ==
    [][LET t == last'.task
       IN  /\ \A v \in Users \ {t.user} :
                  SessionOf(user_sessions', v) = SessionOf(user_sessions, v)
           /\ (last'.op = "send" /\ t.kind = "text")
              => /\ last'.room \in DOMAIN rooms
                 /\ rooms[last'.room].kind = "conv"
                 /\ rooms[last'.room].owner = t.user
           /\ \A i \in DOMAIN tasks' :
                  (tasks'[i].kind = "text" /\ tasks'[i].room_id # None)
                  => rooms'[tasks'[i].room_id].owner = tasks'[i].user]_vars

\* C31 witness: the selection of one user is confirmed while the other user
\* is chatting in a room of their own.
C31_Witness ==
    /\ impl # "bot"
    /\ last.reply = "confirmation"
    /\ rooms[last.room].owner = last.task.user
    /\ \E v \in Users \ {last.task.user} :
           /\ Active(v)
           /\ user_sessions[v].matrix_room_id # last.room
           /\ rooms[user_sessions[v].matrix_room_id].owner = v

\* C32: /start resets an ACTIVE session (DepartmentRouter,
\* TelegramSpaceIntegration).  A /start that names no configured department
\* shows the keyboard and then replaces the user's session, chatting or
\* not, by {state: selecting_department}; a text that finds the session
\* selecting is not relayed but answered with the keyboard.
C32_StartResetsActive ==
    [][LET t == last'.task
           u == t.user
       IN  /\ (impl # "bot" /\ t.kind = "start" /\ ~NamesDepartment(t)
               /\ last'.from = "recv")
              => (t.pc = "respond_welcome" /\ last'.reply = "welcome")
           /\ (impl # "bot" /\ t.kind = "start" /\ ~NamesDepartment(t)
               /\ last'.from = "respond_welcome")
              => /\ user_sessions'[u] = SelectingSession
                 /\ DOMAIN user_sessions'[u] = {"state"}
                 /\ t.pc = "done"
           /\ (impl # "bot" /\ t.kind = "text" /\ last'.from = "recv"
               /\ HasSession(u) /\ user_sessions[u] = SelectingSession)
              => /\ t.pc = "respond_welcome"
                 /\ last'.op = "none"
                 /\ t.room_id = None
                 /\ rooms' = rooms]_vars

\* C32 witness: a chatting user sent /start, with no other update in
\* flight, and the session is selecting again.
C32_Witness ==
    /\ impl # "bot"
    /\ last.task.kind = "start"
    /\ last.task.solo
    /\ WasActive(last.task)
    /\ last.from = "respond_welcome"
    /\ user_sessions[last.task.user] = SelectingSession

\* C33: at most one root space.  However many space resolutions run, one
\* after the other, at most one createRoom call for the root space ever
\* succeeds.
C33_AtMostOneRootSpace ==
    Cardinality(SpacesOfKind("root")) <= 1

\* The calls and waits a selection may get to from the one that just ended.
StepsAfter(from) ==
    IF from \in {"recv", "edit_connecting"}
    THEN IF impl = "space" THEN {"edit_connecting", "post_root", "post_room"}
         ELSE {"edit_connecting", "post_room"}
    ELSE IF from = "post_root" THEN {"post_telegram", "done"}
    ELSE IF from = "post_telegram" THEN {"put_space_child", "done"}
    ELSE IF from = "put_space_child" THEN {"post_room"}
    ELSE IF from = "post_room"
    THEN IF impl = "space" THEN {"put_room_child", "done"}
         ELSE {"post_invite", "done"}
    ELSE IF from = "put_room_child" THEN {"post_invite", "respond_confirm"}
    ELSE IF from = "post_invite" THEN {"post_invite", "respond_confirm"}
    ELSE IF from = "respond_confirm" THEN {"post_message"}
    ELSE IF from = "post_message" THEN {"done"}
    ELSE {}

\* C34: provisioning step order.  A selection goes through its calls in
\* the order space resolution, createRoom of the room, space link, invites,
\* session, confirmation, initial message: the room's createRoom is sent
\* with a resolved space; link and invites go to a room that createRoom
\* returned, the link while nobody has been invited; the session is written
\* by the step that ends the last of these calls, the step of the
\* confirmation, and by no other step of the selection; the send of the
\* initial message follows the confirmation.
C34_ProvisioningStepOrder ==
    [][LET t == last'.task
       IN  (impl # "bot" /\ Selection(t) /\ last'.from # "arrive")
           => /\ t.pc \in StepsAfter(last'.from)
              /\ (impl = "space" /\ t.pc = "post_room")
                 => t.telegram_space_id \in SpacesOfKind("channel")
              /\ t.pc \in {"put_room_child", "post_invite"}
                 => t.room_id \in DOMAIN rooms'
              /\ last'.from = "put_room_child"
                 => (last'.op = "link" /\ rooms[t.room_id].tried = {})
              /\ last'.from = "post_invite"
                 => (last'.op = "invite"
                     /\ (impl = "space" => t.idx > 0)
                     /\ t.room_id \in DOMAIN rooms)
              /\ user_sessions' # user_sessions
                 => (last'.reply = "confirmation"
                     /\ t.pc = "respond_confirm"
                     /\ last'.from \in {"put_room_child", "post_invite"})
              /\ last'.reply = "confirmation"
                 => (t.pc = "respond_confirm"
                     /\ Introductions(t.room_id) = {})
              /\ last'.op = "send"
                 => (last'.from = "post_message" /\ t.message = "intro")]_vars

\* C34 witness: the initial message of a selection in
\* TelegramSpaceIntegration was sent after the link and all three invites
\* of its room had succeeded.
C34_Witness ==
    /\ impl = "space"
    /\ Selection(last.task)
    /\ last.op = "send"
    /\ last.from = "post_message"
    /\ rooms[last.room].parent = last.task.telegram_space_id
    /\ rooms[last.room].tried = Invitees(1)
    /\ Cardinality(rooms[last.room].tried) = 3
    /\ rooms[last.room].failed = {}

\* C35: sessions are never destroyed.  No step removes a user from
\* user_sessions: a user that has a session record has one ever after.
C35_SessionsNeverDestroyed ==
    [][DOMAIN user_sessions \subseteq DOMAIN user_sessions']_vars

\* C35 witness: a chatting user selected another department, the room's
\* createRoom failed, and the user still has the session.
C35_Witness ==
    /\ Selection(last.task)
    /\ last.op = "createRoom"
    /\ last.outcome # "ok"
    /\ last.reply = "error"
    /\ IsChatting(last.task.user)
    /\ user_sessions[last.task.user].department # last.task.department

\* The place of room r among the conversation rooms of rs, in the order of
\* their creation.
ConversationNumber(rs, r) ==
    Cardinality({q \in 1..r : rs[q].kind = "conv"})

\* What DepartmentRouter and TelegramSpaceIntegration have in common: the
\* sessions, and the conversation rooms in the order of their createRoom
\* calls, each with the messages sent to it.  Rooms are named by their
\* place among the conversation rooms; spaces, links and invites are left
\* out.
Observable(p) ==
    LET conv == SelectSeq(p.rooms, LAMBDA x : x.kind = "conv")
    IN  [sessions |->
            [u \in DOMAIN p.user_sessions |->
                LET se == p.user_sessions[u]
                IN  IF se.state = "chatting"
                    THEN [state |-> se.state, department |-> se.department,
                          room |-> ConversationNumber(p.rooms,
                                                      se.matrix_room_id)]
                    ELSE se],
         rooms |->
            [k \in DOMAIN conv |->
                [owner |-> conv[k].owner, dept |-> conv[k].dept,
                 msgs |-> conv[k].msgs]]]

\* C36: router equivalence.  DepartmentRouter and TelegramSpaceIntegration
\* are given the same updates, one at a time, and the same answers to their
\* createRoom and send requests for conversation rooms, the requests of the
\* space hierarchy succeeding.  After every update they have the same
\* sessions, and the same conversation rooms created in the same order with
\* the same messages sent to each.
C36_RouterEquivalence ==
    InStep => Observable(Program) = Observable(peer)

\* C36 witness: both routers have handled a selection and a text of the
\* same user; both have the chatting session and the room with the initial
\* message and the text, and one of them has made spaces.
C36_Witness ==
    /\ InStep
    /\ nEvents >= 2
    /\ Len(rooms) # Len(peer.rooms)
    /\ Len(Observable(Program).rooms) = 1
    /\ Len(Observable(peer).rooms) = 1
    /\ Len(Observable(peer).rooms[1].msgs) = 2
    /\ Observable(peer).rooms[1].msgs[1].body = "intro"
    /\ Observable(peer).rooms[1].msgs[2].body \in Texts
    /\ Observable(Program).rooms[1].msgs = Observable(peer).rooms[1].msgs
    /\ \E u \in DOMAIN user_sessions :
           /\ u \in DOMAIN peer.user_sessions
           /\ IsChatting(u)
           /\ Observable(peer).sessions[u].room = 1
           /\ Observable(Program).sessions[u].room = 1

====
